---------------------------- MODULE Spec2Model ----------------------------
(***************************************************************************)
(* The SQL gateway of ask-bnb (src/lambda/main.py): request extraction,    *)
(* the SELECT-only / ban-list validator, the LIMIT rewriter, the           *)
(* submit / poll / cancel / fetch state machine against the query backend  *)
(* and the response envelope.                                              *)
(*                                                                         *)
(* Text is a sequence of one-character strings, so the regular expressions *)
(* and the substring tests of the source are evaluated character by        *)
(* character.  Time is counted in tenths of a second.                      *)
(***************************************************************************)
EXTENDS Integers, Sequences, FiniteSets, TLC

VARIABLES
    event,          \* the inbound event handed to lambda_handler
    MAX_ROWS,       \* the configured row ceiling (module constant, read once)
    pc,             \* position of the handler
    body,           \* local `body`   (result of _extract_body)
    sql,            \* local `sql`    (after line 159: the rewritten text)
    max_wait,       \* local `max_wait`
    start,          \* local `start`  (clock reading before the loop)
    now,            \* the clock, tenths of a second
    state,          \* local `state`  (last polled execution state)
    bytes_scanned,  \* local `bytes_scanned`
    res,            \* local `res`    (raw answer of get_query_results)
    cols,           \* local `cols`
    rows,           \* local `rows`
    calls,          \* backend calls issued so far, in order
    outcome,        \* which exit of the handler was taken
    result          \* what the caller of lambda_handler receives

vars == <<event, MAX_ROWS, pc, body, sql, max_wait, start, now, state,
          bytes_scanned, res, cols, rows, calls, outcome, result>>

----------------------------------------------------------------------------
(* Bounds of the model.                                                    *)

MaxPieces == 2      \* pieces appended to a statement head
MaxDataRows == 2    \* data rows after the header row of a raw result
MaxLatency == 1     \* tenths of a second one status call may take

----------------------------------------------------------------------------
(* Characters and text.                                                    *)

UPPER == <<"A","B","C","D","E","F","G","H","I","J","K","L","M",
           "N","O","P","Q","R","S","T","U","V","W","X","Y","Z">>
LOWER == <<"a","b","c","d","e","f","g","h","i","j","k","l","m",
           "n","o","p","q","r","s","t","u","v","w","x","y","z">>
DIGITS == <<"0","1","2","3","4","5","6","7","8","9">>

IsUpper(c) == \E i \in 1..26 : UPPER[i] = c
IsLower(c) == \E i \in 1..26 : LOWER[i] = c
IsDigit(c) == \E i \in 1..10 : DIGITS[i] = c
\* \s of the re module (ASCII part) and the default set of str.rstrip()
IsSpace(c) == c \in {" ", "\t", "\n", "\r", "\f"}
\* \w of the re module (ASCII part); \b is a change of IsWord
IsWord(c) == IsUpper(c) \/ IsLower(c) \/ IsDigit(c) \/ c = "_"

\* str.lower(), one character
LowerChar(c) == IF IsUpper(c) THEN LOWER[CHOOSE i \in 1..26 : UPPER[i] = c] ELSE c
\* str.lower()
Lower(s) == [i \in 1..Len(s) |-> LowerChar(s[i])]

\* s[i:] starts with p
StartsAt(s, i, p) ==
    /\ i >= 1
    /\ i + Len(p) - 1 <= Len(s)
    /\ \A k \in 1..Len(p) : s[i + k - 1] = p[k]
\* s.startswith(p)
StartsWith(s, p) == StartsAt(s, 1, p)
\* p in s
Contains(s, p) == \E i \in 1..(Len(s) + 1) : StartsAt(s, i, p)

\* str.rstrip(): drop trailing whitespace
RECURSIVE RStripSpace(_)
RStripSpace(s) ==
    IF Len(s) > 0 /\ IsSpace(s[Len(s)])
    THEN RStripSpace(SubSeq(s, 1, Len(s) - 1))
    ELSE s
\* str.rstrip(";"): drop every trailing semicolon
RECURSIVE RStripSemi(_)
RStripSemi(s) ==
    IF Len(s) > 0 /\ s[Len(s)] = ";"
    THEN RStripSemi(SubSeq(s, 1, Len(s) - 1))
    ELSE s

\* int() of a run of decimal digits
DigitVal(c) == (CHOOSE i \in 1..10 : DIGITS[i] = c) - 1
RECURSIVE ParseInt(_)
ParseInt(d) ==
    IF Len(d) = 0 THEN 0
    ELSE 10 * ParseInt(SubSeq(d, 1, Len(d) - 1)) + DigitVal(d[Len(d)])
\* str() of a natural number, as an f-string renders it
RECURSIVE FormatInt(_)
FormatInt(n) ==
    IF n < 10 THEN <<DIGITS[n + 1]>>
    ELSE Append(FormatInt(n \div 10), DIGITS[(n % 10) + 1])

\* index just past the run of characters satisfying P that starts at i
RECURSIVE SkipSpace(_, _)
SkipSpace(s, i) == IF i <= Len(s) /\ IsSpace(s[i]) THEN SkipSpace(s, i + 1) ELSE i
RECURSIVE SkipDigits(_, _)
SkipDigits(s, i) == IF i <= Len(s) /\ IsDigit(s[i]) THEN SkipDigits(s, i + 1) ELSE i

----------------------------------------------------------------------------
(* Configuration and the validator.                                        *)

kw_select == <<"s","e","l","e","c","t">>
kw_limit  == <<"l","i","m","i","t">>
kw_offset == <<"o","f","f","s","e","t">>

BANNED == { <<"i","n","s","e","r","t">>, <<"u","p","d","a","t","e">>,
            <<"d","e","l","e","t","e">>, <<"m","e","r","g","e">>,
            <<"c","r","e","a","t","e">>, <<"d","r","o","p">>,
            <<"a","l","t","e","r">>, <<"g","r","a","n","t">>,
            <<"r","e","v","o","k","e">> }

\* SELECT_ONLY.match(s):  ^\s*select\b  with IGNORECASE
SELECT_ONLY(s) ==
    LET i == SkipSpace(s, 1)
        j == i + Len(kw_select)
    IN  /\ StartsAt(Lower(s), i, kw_select)
        /\ (j > Len(s) \/ ~IsWord(s[j]))

\* _is_select on a str
_is_select(s) ==
    IF ~SELECT_ONLY(s) THEN FALSE
    ELSE LET low == Lower(s)
         IN  ~ \E kw \in BANNED :
                  \/ Contains(low, <<" ">> \o kw \o <<" ">>)
                  \/ StartsWith(low, kw \o <<" ">>)


----------------------------------------------------------------------------
(* The LIMIT rewriter.                                                     *)

NoMatch == [found |-> FALSE, at |-> 0, lim |-> <<>>, hasOffset |-> FALSE, off |-> <<>>]

\* a match of  (?is)\blimit\b\s+(\d+)(?:\s+offset\s+\d+)?\s*$  that starts at i
LimitAt(s, i) ==
    LET low == Lower(s)
        a == i + Len(kw_limit)
        b == SkipSpace(s, a)
        c == SkipDigits(s, b)
        d == SkipSpace(s, c)
        e == d + Len(kw_offset)
        f == SkipSpace(s, e)
        g == SkipDigits(s, f)
        head == /\ (i = 1 \/ ~IsWord(s[i - 1]))
                /\ StartsAt(low, i, kw_limit)
                /\ b > a
                /\ c > b
        plain == head /\ d = Len(s) + 1
        withOffset == /\ head
                      /\ d > c
                      /\ StartsAt(low, d, kw_offset)
                      /\ f > e
                      /\ g > f
                      /\ SkipSpace(s, g) = Len(s) + 1
    IN  IF withOffset
        THEN [found |-> TRUE, at |-> i, lim |-> SubSeq(s, b, c - 1),
              hasOffset |-> TRUE, off |-> SubSeq(s, f, g - 1)]
        ELSE IF plain
        THEN [found |-> TRUE, at |-> i, lim |-> SubSeq(s, b, c - 1),
              hasOffset |-> FALSE, off |-> <<>>]
        ELSE NoMatch

\* re.search of that pattern in s: the leftmost match
LimitSearch(s) ==
    LET hits == {i \in 1..Len(s) : LimitAt(s, i).found}
    IN  IF hits = {} THEN NoMatch
        ELSE LimitAt(s, CHOOSE i \in hits : \A j \in hits : i <= j)

\* the text the re.sub of line 48 puts in place of the matched clause
Replacement(max_rows) == <<"L","I","M","I","T"," ">> \o FormatInt(max_rows)

\* s = (sql or "").rstrip(); s = s.rstrip(";").rstrip()
StripEnd(s) == RStripSpace(RStripSemi(RStripSpace(s)))

\* a rewrite that leaves a bound above max_rows in place
LowerClauseKept(s, m, max_rows) == s

\* what _ensure_limit does with a matched clause whose bound exceeds max_rows
LowerClause(s, m, max_rows) == SubSeq(s, 1, m.at - 1) \o Replacement(max_rows)

_ensure_limit(text, max_rows) ==
    LET s == StripEnd(text)
        m == LimitSearch(s)
    IN  IF m.found
        THEN IF ParseInt(m.lim) > max_rows
             THEN LowerClause(s, m, max_rows)
             ELSE s
        ELSE s \o <<"\n">> \o Replacement(max_rows)

----------------------------------------------------------------------------
(* Values of the inbound event.  A value is tagged with its Python type:   *)
(* "missing" (no such key), "none", "str" (text s), "int" (number n) and   *)
(* "other" (a non-empty list: truthy, neither str nor number).             *)

Missing == [t |-> "missing", s |-> <<>>, n |-> 0]
None    == [t |-> "none",    s |-> <<>>, n |-> 0]
Other   == [t |-> "other",   s |-> <<>>, n |-> 0]
Str(s)  == [t |-> "str",     s |-> s,    n |-> 0]
Num(n)  == [t |-> "int",     s |-> <<>>, n |-> n]

\* the keys lambda_handler reads from the extracted body
Keys == {"sql", "database", "workgroup", "max_wait_seconds"}

\* a dict: every key of Keys mapped to its value, or to Missing
EmptyMap == [k \in Keys |-> Missing]
IsEmptyMap(m) == \A k \in Keys : m[k].t = "missing"
\* dict.get(k, default)
Get(m, k, default) == IF m[k].t = "missing" THEN default ELSE m[k]

DEFAULT_DB == Str(<<"d","b">>)
DEFAULT_WG == Str(<<"w","g">>)
DefaultMaxWait == 25

\* json.loads of the texts a `parameters` string is drawn from
json_loads(text) ==
    CASE text = "{}" ->
           [ok |-> TRUE, t |-> "dict", m |-> EmptyMap]
      [] text = "{\"sql\": \"select x\", \"max_wait_seconds\": 0}" ->
           [ok |-> TRUE, t |-> "dict",
            m |-> [EmptyMap EXCEPT !["sql"] = Str(<<"s","e","l","e","c","t"," ","x">>),
                                   !["max_wait_seconds"] = Num(0)]]
      [] text = "[1]" ->
           [ok |-> TRUE, t |-> "list", m |-> EmptyMap]
      [] OTHER ->
           [ok |-> FALSE, t |-> "none", m |-> EmptyMap]

\* the loop of lines 78-82 over the properties list: last entry of a name wins;
\* an entry that is no dict makes prop.get raise
RECURSIVE ParseProps(_, _)
ParseProps(items, parsed) ==
    IF Len(items) = 0 THEN [raised |-> FALSE, m |-> parsed]
    ELSE LET prop == Head(items)
         IN  IF prop.kind # "pair" THEN [raised |-> TRUE, m |-> parsed]
             ELSE ParseProps(Tail(items),
                             IF prop.name \in Keys
                             THEN [parsed EXCEPT ![prop.name] = prop.value]
                             ELSE parsed)

Raised == [raised |-> TRUE, t |-> "none", m |-> EmptyMap]
Dict(m) == [raised |-> FALSE, t |-> "dict", m |-> m]

\* lines 75-87 of _extract_body
FromRequestBody(ev) ==
    LET rb == ev.requestBody
    IN  IF rb.t = "null" THEN Raised
        ELSE IF rb.t = "dict" /\ rb.props = "list"
        THEN LET p == ParseProps(rb.items, EmptyMap)
             IN  IF p.raised THEN Raised
                 ELSE IF ~IsEmptyMap(p.m) THEN Dict(p.m)
                 ELSE Dict(EmptyMap)
        ELSE Dict(EmptyMap)

\* lines 68-72 of _extract_body, for a `parameters` that is a str
FromString(ev) ==
    LET j == json_loads(IF ev.parameters.text = "" THEN "{}" ELSE ev.parameters.text)
    IN  IF j.ok THEN [raised |-> FALSE, t |-> j.t, m |-> j.m]
        ELSE FromRequestBody(ev)

_extract_body(ev) ==
    IF ev.kind # "dict" THEN Raised
    ELSE LET p == ev.parameters
         IN  IF p.t = "dict" /\ ~IsEmptyMap(p.m) THEN Dict(p.m)
             ELSE IF p.t = "str" THEN FromString(ev)
             ELSE FromRequestBody(ev)

----------------------------------------------------------------------------
(* The outbound envelope.                                                  *)

EmptyPayload == [columns |-> <<>>, rows |-> <<>>, bytes_scanned |-> 0]

NoFields == [raised |-> TRUE, action_group |-> "", api_path |-> "", http_method |-> ""]

\* a or rc.get(k) or default, where rc.get raises when rc is no dict
OrRc(a, rc, k, default) ==
    IF a # "" THEN [raised |-> FALSE, v |-> a]
    ELSE IF rc.t = "bad" THEN [raised |-> TRUE, v |-> ""]
    ELSE IF rc.t = "dict" /\ rc[k] # "" THEN [raised |-> FALSE, v |-> rc[k]]
    ELSE [raised |-> FALSE, v |-> default]

_resolve_envelope_fields(ev) ==
    IF ev.kind # "dict" THEN NoFields
    ELSE LET rc == ev.requestContext
             ag == OrRc(IF ev.actionGroup # "" THEN ev.actionGroup ELSE ev.actionGroupName,
                        rc, "actionGroup", "ask-bnb-sql-exec")
             ap == OrRc(ev.apiPath, rc, "apiPath", "/run-sql")
             hm == OrRc(ev.httpMethod, rc, "httpMethod", "POST")
         IN  IF ag.raised \/ ap.raised \/ hm.raised THEN NoFields
             ELSE [raised |-> FALSE, action_group |-> ag.v,
                   api_path |-> ap.v, http_method |-> hm.v]

\* json.dumps(payload): a str, kept as the value it decodes to
json_dumps(payload) == [type |-> "str", decodes |-> payload]

Envelope(f, payload, status) ==
    [messageVersion |-> "1.0",
     response |-> [actionGroup |-> f.action_group,
                   apiPath |-> f.api_path,
                   httpMethod |-> f.http_method,
                   httpStatusCode |-> status,
                   responseBody |-> json_dumps(payload)]]

_wrap_response(payload, ev, status) ==
    LET f == _resolve_envelope_fields(ev)
    IN  [raised |-> f.raised, env |-> Envelope(f, payload, status)]

\* int(bytes_scanned or 0) and the `or []` of _ok leave these values as they are
_ok(columns, rws, bytes, ev) ==
    _wrap_response([columns |-> columns, rows |-> rws, bytes_scanned |-> bytes], ev, 200)

ErrStatus == 200

_err(ev) == _wrap_response(EmptyPayload, ev, ErrStatus)

----------------------------------------------------------------------------
(* The handler, lines 144-214.                                             *)

\* `sql or ""` as SELECT_ONLY.match receives it: a str, or a TypeError
OrEmpty(v) ==
    IF v.t = "str" THEN [raised |-> FALSE, s |-> v.s]
    ELSE IF v.t = "none" \/ (v.t = "int" /\ v.n = 0) THEN [raised |-> FALSE, s |-> <<>>]
    ELSE [raised |-> TRUE, s |-> <<>>]

\* int(v): a number, the digits of a str, or a TypeError / ValueError
ToInt(v) ==
    IF v.t = "int" THEN [raised |-> FALSE, n |-> v.n]
    ELSE IF v.t = "str" /\ Len(v.s) > 0 /\ \A i \in 1..Len(v.s) : IsDigit(v.s[i])
    THEN [raised |-> FALSE, n |-> ParseInt(v.s)]
    ELSE [raised |-> TRUE, n |-> 0]

\* a loop test that does not know CANCELLED
IsTerminalNoCancelled(st) == st \in {"SUCCEEDED", "FAILED"}

\* state in ("SUCCEEDED", "FAILED", "CANCELLED")
IsTerminal(st) == st \in {"SUCCEEDED", "FAILED", "CANCELLED"}

\* time.time() - start > max_wait, the clock in tenths of a second
TimedOut(t, t0, wait) == t - t0 > 10 * wait

\* time.sleep(0.6)
Sleep == 6

\* `"" if val is None else str(val)` of one cell; a cell without VarCharValue
\* (or an empty cell) gives None
CellText(f) == IF f.has THEN f.v ELSE ""

\* a row loop without the `if i == 0: continue`
BuildRowsWithHeader(raw) ==
    [i \in 1..Len(raw) |-> [j \in 1..Len(raw[i]) |-> CellText(raw[i][j])]]

\* lines 200-208: every row but the first, each cell as text
BuildRows(raw) ==
    [i \in 1..(IF Len(raw) = 0 THEN 0 ELSE Len(raw) - 1) |->
        [j \in 1..Len(raw[i + 1]) |-> CellText(raw[i + 1][j])]]

Pending == [kind |-> "pending", env |-> Envelope(NoFields, EmptyPayload, 0)]
Returned(env) == [kind |-> "envelope", env |-> env]
Escaped == [kind |-> "exception", env |-> Envelope(NoFields, EmptyPayload, 0)]

\* the except clause, lines 212-214: return _err(event)
Handler ==
    LET h == _err(event)
    IN  IF h.raised THEN pc' = "raised" /\ result' = Escaped
        ELSE pc' = "done" /\ result' = Returned(h.env)

\* a `return r` inside the try block; a raise while building r lands in the
\* except clause
Exit(kind, r) ==
    /\ outcome' = kind
    /\ IF r.raised THEN Handler
       ELSE pc' = "done" /\ result' = Returned(r.env)

\* an exception raised inside the try block
Except == outcome' = "exception" /\ Handler

Call(op, raised, query, target, st, late) ==
    [op |-> op, raised |-> raised, QueryString |-> query, target |-> target,
     state |-> st, late |-> late]

\* lines 146-161: extraction, validation, rewrite
Begin ==
    /\ pc = "start"
    /\ UNCHANGED <<event, MAX_ROWS, start, now, state, bytes_scanned, res, cols,
                   rows, calls>>
    /\ LET b == _extract_body(event)
           q == OrEmpty(Get(b.m, "sql", Str(<<>>)))
           w == ToInt(Get(b.m, "max_wait_seconds", Num(DefaultMaxWait)))
       IN  IF b.raised
           THEN Except /\ UNCHANGED <<body, sql, max_wait>>
           ELSE IF b.t # "dict" \/ w.raised \/ q.raised
           THEN Except /\ body' = b /\ UNCHANGED <<sql, max_wait>>
           ELSE IF ~_is_select(q.s)
           THEN /\ Exit("rejected", _err(event))
                /\ body' = b /\ sql' = q.s /\ max_wait' = w.n
           ELSE /\ body' = b /\ max_wait' = w.n
                /\ sql' = _ensure_limit(q.s, MAX_ROWS)
                /\ pc' = "submit"
                /\ UNCHANGED <<outcome, result>>

\* lines 164-173: athena.start_query_execution, then start = time.time()
StartQuery ==
    /\ pc = "submit"
    /\ UNCHANGED <<event, MAX_ROWS, body, sql, max_wait, now, state,
                   bytes_scanned, res, cols, rows>>
    /\ \E raised \in BOOLEAN :
          /\ calls' = Append(calls, Call("start_query_execution", raised, sql,
                                         <<Get(body.m, "database", DEFAULT_DB),
                                           Get(body.m, "workgroup", DEFAULT_WG)>>,
                                         "", FALSE))
          /\ IF raised
             THEN Except /\ UNCHANGED start
             ELSE /\ start' = now
                  /\ pc' = "poll"
                  /\ UNCHANGED <<outcome, result>>

PollAnswers ==
    {[raised |-> TRUE, state |-> "", bytes |-> 0]}
    \cup {[raised |-> FALSE, state |-> st, bytes |-> 0] :
            st \in {"RUNNING", "SUCCEEDED", "FAILED", "CANCELLED"}}
    \cup {[raised |-> FALSE, state |-> "SUCCEEDED", bytes |-> 7]}

\* lines 174-194: one turn of the loop and, once it is left, lines 189-194
Poll ==
    /\ pc = "poll"
    /\ UNCHANGED <<event, MAX_ROWS, body, sql, max_wait, start, res, cols, rows>>
    /\ \E d \in 0..MaxLatency, a \in PollAnswers :
          LET t == now + d
              late == TimedOut(t, start, max_wait)
          IN  /\ calls' = Append(calls, Call("get_query_execution", a.raised, <<>>,
                                             <<>>, a.state, ~a.raised /\ late))
              /\ IF a.raised
                 THEN Except /\ now' = t /\ UNCHANGED <<state, bytes_scanned>>
                 ELSE /\ state' = a.state
                      /\ IF IsTerminal(a.state)
                         THEN /\ now' = t
                              /\ IF a.state # "SUCCEEDED"
                                 THEN Exit("failed", _err(event))
                                      /\ UNCHANGED bytes_scanned
                                 ELSE /\ bytes_scanned' = a.bytes
                                      /\ pc' = "fetch"
                                      /\ UNCHANGED <<outcome, result>>
                         ELSE IF late
                         THEN /\ now' = t
                              /\ pc' = "stop"
                              /\ UNCHANGED <<bytes_scanned, outcome, result>>
                         ELSE /\ now' = t + Sleep
                              /\ UNCHANGED <<pc, bytes_scanned, outcome, result>>

\* lines 181-186: athena.stop_query_execution, its failure swallowed
StopQuery ==
    /\ pc = "stop"
    /\ UNCHANGED <<event, MAX_ROWS, body, sql, max_wait, start, now, state,
                   bytes_scanned, res, cols, rows>>
    /\ \E raised \in BOOLEAN :
          /\ calls' = Append(calls, Call("stop_query_execution", raised, <<>>, <<>>,
                                         "", FALSE))
          /\ Exit("timeout", _err(event))

\* a raw result set: the column labels and the rows, header row first
Cells == {[has |-> TRUE, v |-> "a"], [has |-> TRUE, v |-> "b"], [has |-> FALSE, v |-> ""]}
Labels == <<"c1">>
HeaderRow == <<[has |-> TRUE, v |-> "c1"]>>
DataRows(k) == [1..k -> {<<c>> : c \in Cells}]
RawResults ==
    {[labels |-> Labels, Rows |-> <<>>]}
    \cup {[labels |-> Labels, Rows |-> <<HeaderRow>> \o d] :
            d \in UNION {DataRows(k) : k \in 0..MaxDataRows}}

\* lines 197-210: athena.get_query_results, the rows, return _ok(...)
GetResults ==
    /\ pc = "fetch"
    /\ UNCHANGED <<event, MAX_ROWS, body, sql, max_wait, start, now, state,
                   bytes_scanned>>
    /\ \/ /\ calls' = Append(calls, Call("get_query_results", TRUE, <<>>, <<>>,
                                            "", FALSE))
          /\ Except
          /\ UNCHANGED <<res, cols, rows>>
       \/ \E r \in RawResults :
             /\ calls' = Append(calls, Call("get_query_results", FALSE, <<>>, <<>>,
                                               "", FALSE))
             /\ res' = r
             /\ cols' = r.labels
             /\ rows' = BuildRows(r.Rows)
             /\ Exit("ok", _ok(r.labels, BuildRows(r.Rows), bytes_scanned, event))

Next == Begin \/ StartQuery \/ Poll \/ StopQuery \/ GetResults

----------------------------------------------------------------------------
(* The requests and configurations explored.                               *)

Heads == {
    <<"s","e","l","e","c","t"," ","x">>,
    <<"\t","S","e","l","e","c","t"," ","x">> }

Pieces == {
    <<" ">>,
    <<";">>,
    <<"\n">>,
    <<" ","l","i","m","i","t"," ","2">>,
    <<"\n","L","I","M","I","T"," ","5","0">>,
    <<" ","o","f","f","s","e","t"," ","2","0","0">>,
    <<"l","i","m","i","t"," ","9">>,
    <<"d","r","o","p">> }

RECURSIVE Concat(_)
Concat(ps) == IF Len(ps) = 0 THEN <<>> ELSE Head(ps) \o Concat(Tail(ps))

\* statement texts: a head followed by at most MaxPieces pieces
SqlTexts ==
    {h \o Concat(ps) : h \in Heads, ps \in UNION {[1..k -> Pieces] : k \in 0..MaxPieces}}

Ceilings == {3, 10}

SelectX == <<"s","e","l","e","c","t"," ","x">>
DropX == <<"d","r","o","p"," ","x">>

\* the `parameters` field
PAbsent == [t |-> "absent", m |-> EmptyMap, text |-> ""]
POther == [t |-> "other", m |-> EmptyMap, text |-> ""]
PDict(m) == [t |-> "dict", m |-> m, text |-> ""]
PStr(text) == [t |-> "str", m |-> EmptyMap, text |-> text]

SqlWait(q, w) == [EmptyMap EXCEPT !["sql"] = q, !["max_wait_seconds"] = w]

\* the `requestBody` field
RBAbsent == [t |-> "absent", props |-> "absent", items |-> <<>>]
RBNull == [t |-> "null", props |-> "absent", items |-> <<>>]
RBProps(items) == [t |-> "dict", props |-> "list", items |-> items]
Pair(name, value) == [kind |-> "pair", name |-> name, value |-> value]
BadProp == [kind |-> "bad", name |-> "", value |-> None]

\* the `requestContext` field
RCAbsent == [t |-> "absent", actionGroup |-> "", apiPath |-> "", httpMethod |-> ""]
RCBad == [t |-> "bad", actionGroup |-> "", apiPath |-> "", httpMethod |-> ""]
RCDict(ag, ap, hm) == [t |-> "dict", actionGroup |-> ag, apiPath |-> ap, httpMethod |-> hm]

Ev(p, rb, rc, top) ==
    [kind |-> "dict", parameters |-> p, requestBody |-> rb, requestContext |-> rc,
     actionGroup |-> top[1], actionGroupName |-> top[2], apiPath |-> top[3],
     httpMethod |-> top[4]]

\* an event that is no dict (null, a list, a str)
NonDictEvent == [Ev(PAbsent, RBAbsent, RCAbsent, <<"", "", "", "">>) EXCEPT !.kind = "nondict"]

FullTop == <<"grp", "", "/q", "GET">>

\* a statement in `parameters`, max_wait_seconds -1, routing fields at top level
SqlEvents ==
    {Ev(PDict(SqlWait(Str(s), Num(-1))), RBAbsent, RCAbsent, FullTop) : s \in SqlTexts}

\* `parameters` forms that _extract_body passes over or parses
ParamForms ==
    { PAbsent, POther, PDict(EmptyMap),
      PStr(""), PStr("{}"), PStr("[1]"), PStr("{oops"),
      PStr("{\"sql\": \"select x\", \"max_wait_seconds\": 0}") }

\* `parameters` forms that are a non-empty dict
DictForms ==
    { PDict([EmptyMap EXCEPT !["database"] = Str(<<"o">>)]),
      PDict(SqlWait(Str(SelectX), Missing)),
      PDict(SqlWait(Str(SelectX), Num(1))),
      PDict(SqlWait(Str(SelectX), Num(-1))),
      PDict(SqlWait(Str(SelectX), Str(<<"1">>))),
      PDict(SqlWait(Str(SelectX), Str(<<"x">>))),
      PDict(SqlWait(Str(SelectX), None)),
      PDict(SqlWait(Str(<<"s","e","l","e","c","t","x">>), Num(0))),
      PDict(SqlWait(Str(<<>>), Num(0))),
      PDict(SqlWait(Str(<<"s","e","l","e","c","t"," ","d","r","o","p"," ","x">>), Num(0))),
      PDict(SqlWait(None, Num(0))),
      PDict(SqlWait(Num(5), Num(0))),
      PDict(SqlWait(Other, Num(0))) }

SqlProps == RBProps(<<Pair("sql", Str(SelectX)), Pair("max_wait_seconds", Num(0))>>)

RBForms ==
    { RBAbsent, RBNull,
      [t |-> "dict", props |-> "absent", items |-> <<>>],
      [t |-> "dict", props |-> "other", items |-> <<>>],
      RBProps(<<>>),
      SqlProps,
      RBProps(<<Pair("sql", Str(DropX)), Pair("sql", Str(SelectX)),
                Pair("max_wait_seconds", Num(0))>>),
      RBProps(<<Pair("", Str(SelectX)), Pair("sql", None)>>),
      RBProps(<<Pair("sql", Str(SelectX)), BadProp>>) }

\* every passed-over `parameters` form with every `requestBody` form, and the
\* non-empty dicts without a `requestBody`
BodyEvents ==
    {Ev(p, rb, RCAbsent, FullTop) : p \in ParamForms, rb \in RBForms}
    \cup {Ev(p, RBAbsent, RCAbsent, FullTop) : p \in DictForms}
    \cup {Ev(PDict(SqlWait(Str(DropX), Num(0))), SqlProps, RCAbsent, FullTop)}

Tops == {FullTop, <<"", "", "", "">>, <<"", "name", "", "">>, <<"grp", "", "/q", "">>}
RCForms == {RCAbsent, RCBad, RCDict("", "", ""), RCDict("rcgrp", "/rc", "PUT")}

\* every routing form, with an accepted and with a rejected statement
RoutingEvents ==
    {Ev(PDict(SqlWait(Str(s), Num(0))), RBAbsent, rc, top) :
        s \in {SelectX, DropX}, rc \in RCForms, top \in Tops}
    \cup {NonDictEvent}

\* every statement under every ceiling; the other events under one ceiling
Init ==
    /\ \/ event \in SqlEvents /\ MAX_ROWS \in Ceilings
       \/ event \in BodyEvents \cup RoutingEvents /\ MAX_ROWS = 10
    /\ pc = "start"
    /\ body = Dict(EmptyMap)
    /\ sql = <<>>
    /\ max_wait = 0
    /\ start = 0
    /\ now = 0
    /\ state = ""
    /\ bytes_scanned = 0
    /\ res = [labels |-> <<>>, Rows |-> <<>>]
    /\ cols = <<>>
    /\ rows = <<>>
    /\ calls = <<>>
    /\ outcome = ""
    /\ result = Pending

Spec == Init /\ [][Next]_vars

\* the routing events alone, for the check of termination
InitRouting ==
    /\ event \in RoutingEvents /\ MAX_ROWS = 10
    /\ pc = "start" /\ body = Dict(EmptyMap) /\ sql = <<>> /\ max_wait = 0
    /\ start = 0 /\ now = 0 /\ state = "" /\ bytes_scanned = 0
    /\ res = [labels |-> <<>>, Rows |-> <<>>] /\ cols = <<>> /\ rows = <<>>
    /\ calls = <<>> /\ outcome = "" /\ result = Pending

\* every enabled step is eventually taken: the handler runs on a thread that
\* is not suspended, each backend call answers, time.sleep returns
FairSpec == InitRouting /\ [][Next]_vars /\ WF_vars(Next)

----------------------------------------------------------------------------
(* Vocabulary of the properties.                                           *)

Terminated == pc \in {"done", "raised"}

\* the statement text as extracted, before the rewrite
SqlIn == OrEmpty(Get(body.m, "sql", Str(<<>>))).s

At(op) == {i \in DOMAIN calls : calls[i].op = op}
Submitted == Len(calls) >= 1 /\ calls[1].op = "start_query_execution"

ReturnedEmpty ==
    /\ result.kind = "envelope"
    /\ result.env.response.httpStatusCode = 200
    /\ result.env.response.responseBody.type = "str"
    /\ result.env.response.responseBody.decodes = EmptyPayload

\* kw stands in s as a token of its own: no word character on either side
TokenAt(s, i, kw) ==
    /\ StartsAt(s, i, kw)
    /\ (i = 1 \/ ~IsWord(s[i - 1]))
    /\ (i + Len(kw) > Len(s) \/ ~IsWord(s[i + Len(kw)]))
HasBannedToken(s) ==
    \E kw \in BANNED : \E i \in 1..Len(s) : TokenAt(Lower(s), i, kw)

----------------------------------------------------------------------------
(* The properties.                                                         *)

\* C1: no exception escapes lambda_handler; whatever the event and whatever the
\* backend does, a finished request has returned a well-formed envelope whose
\* body is a string decoding to {columns, rows, bytes_scanned}.
C1_NeverPropagates ==
    /\ pc # "raised"
    /\ pc = "done" =>
          /\ result.kind = "envelope"
          /\ result.env.messageVersion = "1.0"
          /\ result.env.response.responseBody.type = "str"

\* C2: every failure kind (rejection, timeout, FAILED / CANCELLED, an exception,
\* malformed input) ends in the same outcome: the empty payload in a
\* status-200 envelope.
C2_FailuresCollapse ==
    (Terminated /\ outcome \in {"rejected", "timeout", "failed", "exception"})
        => ReturnedEmpty

\* C3: a request that timed out has issued exactly one stop_query_execution,
\* has not called get_query_results, and has returned the empty payload with
\* status 200, whether or not the stop call raised.
C3_TimeoutCancels ==
    (Terminated /\ outcome = "timeout") =>
        /\ Cardinality(At("stop_query_execution")) = 1
        /\ At("get_query_results") = {}
        /\ ReturnedEmpty

\* C4: a statement that holds a banned keyword as a token of its own, whatever
\* delimits it, is never handed to start_query_execution.
C4_BannedNeverSubmitted ==
    (Len(calls) = 1 /\ Submitted) => ~HasBannedToken(SqlIn)

\* C5: when the trailing clause is LIMIT n OFFSET m with n above the ceiling,
\* the submitted text ends in LIMIT <ceiling> OFFSET m and the text before the
\* clause is unchanged.
C5_OffsetPreserved ==
    (Len(calls) = 1 /\ Submitted) =>
        LET s == StripEnd(SqlIn)
            in == LimitSearch(s)
            out == LimitSearch(calls[1].QueryString)
        IN  (in.found /\ in.hasOffset /\ ParseInt(in.lim) > MAX_ROWS) =>
                /\ out.found /\ out.hasOffset
                /\ ParseInt(out.lim) = MAX_ROWS
                /\ out.off = in.off
                /\ out.at = in.at
                /\ SubSeq(calls[1].QueryString, 1, out.at - 1) = SubSeq(s, 1, in.at - 1)

C7_HeaderExcluded ==
    (/\ Len(calls) >= 1
     /\ calls[Len(calls)].op = "get_query_results"
     /\ ~calls[Len(calls)].raised
     /\ Len(res.Rows) >= 1) =>
        /\ Len(rows) = Len(res.Rows) - 1
        /\ \A i \in 1..Len(rows) :
              /\ Len(rows[i]) = Len(res.Rows[i + 1])
              /\ \A j \in 1..Len(rows[i]) :
                    rows[i][j] = (IF res.Rows[i + 1][j].has THEN res.Rows[i + 1][j].v ELSE "")
        /\ cols = res.labels
        /\ pc = "done" =>
              /\ result.env.response.responseBody.decodes.rows = rows
              /\ result.env.response.responseBody.decodes.columns = cols

\* C7, witness: a returned result built from a header row and two different
\* data rows
C7_Witness ==
    /\ pc = "done" /\ outcome = "ok"
    /\ Len(res.Rows) = 3
    /\ res.Rows[2] # res.Rows[3]
    /\ Len(result.env.response.responseBody.decodes.rows) = 2

\* C8: a `parameters` that yields an empty mapping does not end the search:
\* when the properties list carries pairs, those pairs are the extracted body.
C8_ExtractFallsThrough ==
    (/\ pc # "start"
     /\ event.kind = "dict"
     /\ \/ event.parameters.t = "dict" /\ IsEmptyMap(event.parameters.m)
        \/ /\ event.parameters.t = "str"
           /\ json_loads(IF event.parameters.text = "" THEN "{}"
                         ELSE event.parameters.text).t = "dict"
           /\ IsEmptyMap(json_loads(IF event.parameters.text = "" THEN "{}"
                                    ELSE event.parameters.text).m)
     /\ ~FromRequestBody(event).raised
     /\ ~IsEmptyMap(FromRequestBody(event).m)) =>
        body = FromRequestBody(event)

\* C9: a request whose statement was submitted and whose backend calls all
\* returned ends by returning an envelope, after at least one status poll; a
\* terminal state seen on a poll is honoured even when the wait has run out.
C9_ReturnsEnvelope ==
    (/\ Terminated
     /\ Submitted
     /\ \A i \in DOMAIN calls : ~calls[i].raised) =>
        /\ result.kind = "envelope"
        /\ At("get_query_execution") # {}
        /\ \A i \in At("get_query_execution") :
              calls[i].state \in {"SUCCEEDED", "FAILED", "CANCELLED"} =>
                  /\ At("stop_query_execution") = {}
                  /\ outcome = (IF calls[i].state = "SUCCEEDED" THEN "ok" ELSE "failed")

\* C9, the part about the loop alone: every request comes to an end
C9_Halts == <>Terminated

\* C10: the order of the backend calls of one request: one submit at most and
\* only for a validated statement, polls only after a submit that returned, one
\* fetch at most and only right after a poll that saw SUCCEEDED, one cancel at
\* most and only right after a poll that saw a non-terminal state with the wait
\* run out, no cancel once a terminal state was seen, never cancel and fetch.
C10_CallOrder ==
    /\ outcome = "rejected" => calls = <<>>
    /\ Len(calls) = 1 => (body.t = "dict" /\ _is_select(SqlIn))
    /\ \A i \in DOMAIN calls :
          /\ calls[i].op = "start_query_execution" => i = 1
          /\ i > 1 => (calls[1].op = "start_query_execution" /\ ~calls[1].raised)
          /\ calls[i].op = "get_query_results" =>
                /\ i > 1
                /\ calls[i - 1].op = "get_query_execution"
                /\ ~calls[i - 1].raised
                /\ calls[i - 1].state = "SUCCEEDED"
          /\ calls[i].op = "stop_query_execution" =>
                /\ i > 1
                /\ calls[i - 1].op = "get_query_execution"
                /\ ~calls[i - 1].raised
                /\ calls[i - 1].state \notin {"SUCCEEDED", "FAILED", "CANCELLED"}
                /\ calls[i - 1].late
                /\ \A j \in At("get_query_execution") :
                      calls[j].state \notin {"SUCCEEDED", "FAILED", "CANCELLED"}
    /\ Cardinality(At("get_query_results")) <= 1
    /\ Cardinality(At("stop_query_execution")) <= 1
    /\ At("get_query_results") = {} \/ At("stop_query_execution") = {}

\* C10, witness: a request that polled twice, then cancelled
C10_Witness ==
    /\ Terminated
    /\ Len(calls) = 4
    /\ calls[4].op = "stop_query_execution"

=============================================================================
